---- MODULE Spec2Model ----
(***************************************************************************)
(* A model of pollen_plot.py: ensure_data_folder, extract_alnus_data,      *)
(* get_available_columns, plot_allergen_by_week and the __main__ script.   *)
(*                                                                         *)
(* Text (file names, city names, column names, the -a argument) is a       *)
(* sequence of one-character strings, so that slicing, suffix tests, glob  *)
(* matching and int() are computed.  A date is a day number counted from   *)
(* Monday 2018-01-01.  The file system is assumed to let the script create *)
(* and write the 'data' directory; the network, the archive and every      *)
(* spreadsheet may fail.                                                   *)
(***************************************************************************)
EXTENDS Integers, Sequences, FiniteSets, TLC

VARIABLES
    pc,          \* position of the __main__ script
    args,        \* the parsed command line (argparse namespace)
    net,         \* what the download and the archive will do when tried
    data,        \* the directory 'data': [exists, files]
    downloads,   \* number of calls of urllib.request.urlopen so far
    ensured,     \* what ensure_data_folder returned ("none" before the call)
    folder_path, \* the folder the spreadsheets are read from
    data_df,     \* the frame returned by extract_alnus_data
    listing,     \* what get_available_columns returned
    plot,        \* the chart handed to matplotlib
    exit_status, \* process exit status (-1 while running)
    calls        \* the stage functions called so far, in order

vars == <<pc, args, net, data, downloads, ensured, folder_path, data_df,
          listing, plot, exit_status, calls>>

\* ------------------------------------------------------------------ text

Max(a, b) == IF a >= b THEN a ELSE b

Min(a, b) == IF a <= b THEN a ELSE b

\* s[:n] for n >= 0
Prefix(s, n) == SubSeq(s, 1, Min(Len(s), n))

\* s.endswith(suf)
IsSuffix(suf, s) ==
    /\ Len(suf) <= Len(s)
    /\ SubSeq(s, Len(s) - Len(suf) + 1, Len(s)) = suf

\* pat occurs somewhere in s
Contains(s, pat) ==
    \E i \in 0..(Len(s) - Len(pat)) : SubSeq(s, i + 1, i + Len(pat)) = pat

\* os.path.basename: what follows the last "/"
Basename(p) ==
    LET slashes == {i \in 1..Len(p) : p[i] = "/"}
        last    == IF slashes = {} THEN 0
                   ELSE CHOOSE i \in slashes : \A j \in slashes : j <= i
    IN  SubSeq(p, last + 1, Len(p))

DigitValue(c) ==
    CASE c = "0" -> 0 [] c = "1" -> 1 [] c = "2" -> 2 [] c = "3" -> 3
      [] c = "4" -> 4 [] c = "5" -> 5 [] c = "6" -> 6 [] c = "7" -> 7
      [] c = "8" -> 8 [] c = "9" -> 9 [] OTHER -> -1

AllDigits(s) == Len(s) > 0 /\ \A i \in 1..Len(s) : DigitValue(s[i]) >= 0

RECURSIVE DigitsToNat(_)
DigitsToNat(s) ==
    IF s = <<>> THEN 0
    ELSE 10 * DigitsToNat(SubSeq(s, 1, Len(s) - 1)) + DigitValue(s[Len(s)])

\* int(s) succeeds: an optional sign followed by digits
IsIntText(s) ==
    IF s # <<>> /\ s[1] \in {"-", "+"} THEN AllDigits(Tail(s)) ELSE AllDigits(s)

\* int(s)
IntOf(s) ==
    IF s[1] = "-" THEN 0 - DigitsToNat(Tail(s))
    ELSE IF s[1] = "+" THEN DigitsToNat(Tail(s))
    ELSE DigitsToNat(s)

ExtXlsx == <<".", "x", "l", "s", "x">>

ExtXls == <<".", "x", "l", "s">>

ZipName == <<"p", "o", "l", "l", "e", "n", "_", "d", "a", "t", "a", ".", "z", "i", "p">>

\* --------------------------------------------------------- spreadsheets

\* cells: a timestamp, free text, a number, or an empty cell
DateCell(d) == [k |-> "date", v |-> d]

TextCell == [k |-> "text", v |-> 0]

NumCell(n) == [k |-> "num", v |-> n]

NaCell == [k |-> "na", v |-> 0]

\* what pd.read_excel finds in a file: a sheet, or something it raises on
Sheet(columns, rows) == [readable |-> TRUE, columns |-> columns, rows |-> rows]

Unreadable == [readable |-> FALSE, columns |-> <<>>, rows |-> <<>>]

NoDir == [exists |-> FALSE, files |-> <<>>]

Dir(files) == [exists |-> TRUE, files |-> files]

\* open(path, 'wb') and write: replaces the file of that name or adds one
WriteFile(files, name, content) ==
    IF \E i \in 1..Len(files) : files[i].name = name
    THEN [i \in 1..Len(files) |->
            IF files[i].name = name THEN [name |-> name, content |-> content]
            ELSE files[i]]
    ELSE Append(files, [name |-> name, content |-> content])

\* Path.unlink
RemoveFile(files, name) == SelectSeq(files, LAMBDA f : f.name # name)

\* list(p.glob('*.xlsx')) + list(p.glob('*.xls'))
ExcelFiles(dir) ==
    SelectSeq(dir.files, LAMBDA f : IsSuffix(ExtXlsx, f.name))
    \o SelectSeq(dir.files, LAMBDA f : IsSuffix(ExtXls, f.name))

\* fnmatch of '*<city>*<ext>'
GlobMatch(name, city, ext) ==
    /\ IsSuffix(ext, name)
    /\ Contains(SubSeq(name, 1, Len(name) - Len(ext)), city)

\* list(p.glob(f'*{city}*.xlsx')) + list(p.glob(f'*{city}*.xls'))
CityFiles(dir, city) ==
    SelectSeq(dir.files, LAMBDA f : GlobMatch(f.name, city, ExtXlsx))
    \o SelectSeq(dir.files, LAMBDA f : GlobMatch(f.name, city, ExtXls))

\* ---------------------------------------------------- ensure_data_folder

\* the loop over zip_ref.namelist(): member fail_at raises while it is read,
\* after its target was opened for writing
RECURSIVE ExtractAll(_, _, _, _)
ExtractAll(files, members, i, fail_at) ==
    IF i > Len(members) THEN [files |-> files, raised |-> FALSE]
    ELSE LET filename == Basename(members[i].path)
         IN  IF filename = <<>>
             THEN ExtractAll(files, members, i + 1, fail_at)
             ELSE IF i = fail_at
             THEN [files |-> WriteFile(files, filename, Unreadable), raised |-> TRUE]
             ELSE ExtractAll(WriteFile(files, filename, members[i].content),
                             members, i + 1, fail_at)

UseLocalData_IgnoreRefresh(dir, force_refresh) ==
    dir.exists /\ ExcelFiles(dir) # <<>>

\* the test that returns True without downloading
UseLocalData(dir, force_refresh) ==
    dir.exists /\ ~force_refresh /\ ExcelFiles(dir) # <<>>

\* ensure_data_folder(data_folder, force_refresh): what it returns, the
\* directory it leaves and the number of downloads it tried
ensure_data_folder(dir, force_refresh, n) ==
    IF UseLocalData(dir, force_refresh)
    THEN [ret |-> TRUE, dir |-> dir, tried |-> 0]
    ELSE
    LET made == Dir(dir.files)
    IN  IF ~n.urlopen_ok
        THEN [ret |-> FALSE, dir |-> made, tried |-> 1]
        ELSE
        LET zipped == WriteFile(made.files, ZipName, Unreadable)
        IN  IF ~n.is_zip
            THEN [ret |-> FALSE, dir |-> Dir(zipped), tried |-> 1]
            ELSE
            LET ex == ExtractAll(zipped, n.members, 1, n.fail_at)
            IN  IF ex.raised
                THEN [ret |-> FALSE, dir |-> Dir(ex.files), tried |-> 1]
                ELSE
                LET final == Dir(RemoveFile(ex.files, ZipName))
                IN  [ret |-> ExcelFiles(final) # <<>>, dir |-> final, tried |-> 1]

\* ------------------------------------------------------------- calendar

IsLeap(y) == (y % 4 = 0 /\ y % 100 # 0) \/ y % 400 = 0

\* the day number of 1 January of year y (day 0 is Monday 2018-01-01)
RECURSIVE YearStart(_)
YearStart(y) ==
    IF y <= 2018 THEN 0
    ELSE YearStart(y - 1) + (IF IsLeap(y - 1) THEN 366 ELSE 365)

\* Series.dt.year
YearOf(d) ==
    CHOOSE y \in 2018..(2018 + d \div 365) :
        YearStart(y) <= d /\ d < YearStart(y + 1)

WeekOf_WithinYear(d) == (d - YearStart(YearOf(d))) \div 7

\* Series.dt.to_period('W'): the Monday-to-Sunday week holding day d,
\* numbered from the week of day 0
WeekOf(d) == d \div 7

\* PeriodIndex.to_timestamp: the first day of the week
WeekStart(w) == 7 * w

\* --------------------------------------------------- extract_alnus_data

CityPrefixLen == 8

DefaultAllergenCol == 6

DefaultYears == 10

ByName(name) == [is_name |-> TRUE, name |-> name, index |-> 0]

ByIndex(i) == [is_name |-> FALSE, name |-> <<>>, index |-> i]

\* pd.to_datetime(cell, errors='coerce'): NaT unless the cell holds a date
ToDatetime(cell) == IF cell.k = "date" THEN cell ELSE NaCell

\* df.columns.get_loc(name), 0-based
GetLoc(columns, name) ==
    (CHOOSE i \in 1..Len(columns) :
        columns[i] = name /\ \A j \in 1..(i - 1) : columns[j] # name) - 1

\* the 1-based position Python's iloc gives a non-negative or negative index
Position(n, col_index) == IF col_index >= 0 THEN col_index + 1 ELSE n + col_index + 1

DropNa_KeepMissingAllergen(subset) ==
    SelectSeq(subset, LAMBDA r : r.date.k # "na" /\ r.year.k # "na")

\* DataFrame.dropna
DropNa(subset) ==
    SelectSeq(subset,
        LAMBDA r : r.date.k # "na" /\ r.allergen.k # "na" /\ r.year.k # "na")

\* lines 139-150: columns A and the allergen, dates parsed, year added,
\* rows with a missing value dropped
CleanedSubset(df, col_index) ==
    LET p      == Position(Len(df.columns), col_index)
        subset == [i \in 1..Len(df.rows) |->
                    LET date == ToDatetime(df.rows[i][1])
                    IN  [date     |-> date,
                         allergen |-> df.rows[i][p],
                         year     |-> IF date.k = "date"
                                      THEN NumCell(YearOf(date.v)) ELSE NaCell]]
    IN  DropNa(subset)

Skipped == [appended |-> FALSE, rows |-> <<>>]

\* the body of the loop over excel_files: what one file appends to data
ProcessFile(content, allergen_col) ==
    IF ~content.readable THEN Skipped
    ELSE IF allergen_col.is_name /\ ~\E i \in 1..Len(content.columns) :
                                        content.columns[i] = allergen_col.name
    THEN Skipped
    ELSE
    LET col_index == IF allergen_col.is_name
                     THEN GetLoc(content.columns, allergen_col.name)
                     ELSE allergen_col.index
    IN  IF Len(content.columns) > Max(0, col_index)
        THEN IF col_index < 0 - Len(content.columns)
             THEN Skipped
             ELSE [appended |-> TRUE, rows |-> CleanedSubset(content, col_index)]
        ELSE Skipped

\* pd.concat(data, ignore_index=True)
RECURSIVE Concat(_)
Concat(frames) ==
    IF frames = <<>> THEN <<>> ELSE Head(frames).rows \o Concat(Tail(frames))

extract_alnus_data_AbortOnFailure(dir, city_name, allergen_col) ==
    LET excel_files == CityFiles(dir, Prefix(city_name, CityPrefixLen))
        results     == [i \in 1..Len(excel_files) |->
                          ProcessFile(excel_files[i].content, allergen_col)]
    IN  IF \E i \in 1..Len(results) : ~results[i].appended
        THEN <<>>
        ELSE Concat(results)

\* extract_alnus_data(folder_path, city_name, allergen_col): the rows of the
\* returned frame
extract_alnus_data(dir, city_name, allergen_col) ==
    LET excel_files == CityFiles(dir, Prefix(city_name, CityPrefixLen))
        results     == [i \in 1..Len(excel_files) |->
                          ProcessFile(excel_files[i].content, allergen_col)]
    IN  Concat(SelectSeq(results, LAMBDA r : r.appended))

\* get_available_columns(folder_path, city_name)
get_available_columns(dir, city_name) ==
    LET excel_files == CityFiles(dir, Prefix(city_name, CityPrefixLen))
    IN  IF excel_files # <<>> /\ excel_files[1].content.readable
           /\ excel_files[1].content.columns # <<>>
        THEN Tail(excel_files[1].content.columns)
        ELSE <<>>

\* ------------------------------------------------ plot_allergen_by_week

RECURSIVE Gcd(_, _)
Gcd(a, b) == IF b = 0 THEN a ELSE Gcd(b, a % b)

RECURSIVE SumAllergen(_)
SumAllergen(rows) ==
    IF rows = <<>> THEN 0 ELSE Head(rows).allergen.v + SumAllergen(Tail(rows))

\* Series.mean over a non-empty group, as a fraction in lowest terms
Mean(rows) ==
    LET s == SumAllergen(rows)
        g == Gcd(Len(rows), s)
    IN  [num |-> s \div g, den |-> Len(rows) \div g]

\* the elements of a finite set of integers in increasing order
RECURSIVE Ascending(_)
Ascending(S) ==
    IF S = {} THEN <<>>
    ELSE LET m == CHOOSE x \in S : \A y \in S : x <= y
         IN  <<m>> \o Ascending(S \ {m})

FirstYear_OffByOne(max_year, num_years) == max_year - num_years

\* min_year = max_year - (num_years - 1)
FirstYear(max_year, num_years) == max_year - (num_years - 1)

NoPlot == [drawn |-> FALSE, points |-> <<>>, min_year |-> 0, max_year |-> 0,
           aggregated |-> <<>>]

\* plot_allergen_by_week(df, allergen_name, num_years, city_name, output_file):
\* the points scattered, the years of the title and the rows aggregated
plot_allergen_by_week(df, num_years) ==
    IF df = <<>> THEN NoPlot
    ELSE
    LET years       == {df[i].year.v : i \in 1..Len(df)}
        max_year    == CHOOSE y \in years : \A z \in years : z <= y
        min_year    == FirstYear(max_year, num_years)
        df_filtered == SelectSeq(df, LAMBDA r : r.year.v >= min_year)
        df_sorted   == SortSeq(df_filtered, LAMBDA a, b : a.date.v < b.date.v)
        year_week   == [i \in 1..Len(df_sorted) |-> WeekOf(df_sorted[i].date.v)]
        keys        == Ascending({year_week[i] : i \in 1..Len(df_sorted)})
        weekly_mean == [k \in 1..Len(keys) |->
                          [week |-> keys[k],
                           mean |-> Mean(SelectSeq(df_sorted,
                                       LAMBDA r : WeekOf(r.date.v) = keys[k]))]]
    IN  [drawn      |-> TRUE,
         points     |-> [k \in 1..Len(weekly_mean) |->
                           [x |-> WeekStart(weekly_mean[k].week),
                            y |-> weekly_mean[k].mean]],
         min_year   |-> min_year,
         max_year   |-> max_year,
         aggregated |-> df_filtered]

\* ------------------------------------------------------------ __main__

\* lines 304-315: the column -a names, by index when int() and chr() accept it
ParseAllergen(a) ==
    IF a = <<>> THEN ByIndex(DefaultAllergenCol)
    ELSE IF IsIntText(a) /\ 65 + IntOf(a) >= 0 /\ 65 + IntOf(a) <= 1114111
    THEN ByIndex(IntOf(a))
    ELSE ByName(a)

ExitsWithoutData_Never(ret) == FALSE

\* line 291: if not ensure_data_folder('data', args.refresh)
ExitsWithoutData(ret) == ~ret

\* a second directory of spreadsheets, given as folder_path
Elsewhere ==
    Dir(<< [name    |-> <<"N", "I", "C", "E", "_", "A", ".", "x", "l", "s", "x">>,
            content |-> Unreadable],
           [name    |-> <<"N", "I", "C", "E", "_", "C", ".", "x", "l", "s", "x">>,
            content |-> Sheet(<< <<"D", "a", "t", "e">>, <<"A", "L", "N", "U", "S">> >>,
                              << <<DateCell(365), NumCell(4)>> >>)] >>)

\* the directory at a path ('data' is the only one the script writes)
DirAt(path) ==
    IF path = "data" THEN data
    ELSE IF path = "elsewhere" THEN Elsewhere
    ELSE NoDir

Terminal ==
    {"plot_saved", "no_data", "listed", "no_columns", "invalid_folder", "exited"}

\* line 291: the call of ensure_data_folder
EnsureData ==
    /\ pc = "start"
    /\ LET r == ensure_data_folder(data, args.refresh, net)
       IN  /\ data' = r.dir
           /\ downloads' = downloads + r.tried
           /\ ensured' = IF r.ret THEN "true" ELSE "false"
    /\ calls' = Append(calls, "ensure_data_folder")
    /\ pc' = "ensured"
    /\ UNCHANGED <<args, net, folder_path, data_df, listing, plot, exit_status>>

\* lines 292-293: "Cannot proceed without data files." and exit(1)
CannotProceed ==
    /\ pc = "ensured"
    /\ ExitsWithoutData(ensured = "true")
    /\ pc' = "exited"
    /\ exit_status' = 1
    /\ UNCHANGED <<args, net, data, downloads, ensured, folder_path, data_df,
                   listing, plot, calls>>

\* lines 296-302 and 343-344: the folder to read, asked for when 'data' is
\* not a directory, and "Invalid folder path" when it is none
ResolveFolder ==
    /\ pc = "ensured"
    /\ ~ExitsWithoutData(ensured = "true")
    /\ \E typed \in IF args.folder_path = "" /\ ~DirAt("data").exists
                    THEN {"elsewhere", "nowhere"} ELSE {""} :
          LET chosen == IF args.folder_path # "" THEN args.folder_path
                        ELSE IF DirAt("data").exists THEN "data" ELSE typed
          IN  /\ folder_path' = chosen
              /\ IF DirAt(chosen).exists
                 THEN pc' = "extract" /\ UNCHANGED exit_status
                 ELSE pc' = "invalid_folder" /\ exit_status' = 0
    /\ UNCHANGED <<args, net, data, downloads, ensured, data_df, listing, plot,
                   calls>>

Extract_PlotsWhateverCame ==
    /\ pc = "extract"
    /\ data_df' = extract_alnus_data(DirAt(folder_path), args.city,
                                   ParseAllergen(args.allergen))
    /\ calls' = Append(calls, "extract_alnus_data")
    /\ pc' = "plotting"
    /\ UNCHANGED <<args, net, data, downloads, ensured, folder_path, listing,
                   plot, exit_status>>

\* lines 304-320: extract_alnus_data and the test of data_df.empty
Extract ==
    /\ pc = "extract"
    /\ data_df' = extract_alnus_data(DirAt(folder_path), args.city,
                                   ParseAllergen(args.allergen))
    /\ calls' = Append(calls, "extract_alnus_data")
    /\ pc' = IF data_df' = <<>> THEN "suggest" ELSE "plotting"
    /\ UNCHANGED <<args, net, data, downloads, ensured, folder_path, listing,
                   plot, exit_status>>

\* lines 321-331: the available columns, or "No columns found."
Suggest ==
    /\ pc = "suggest"
    /\ listing' = get_available_columns(DirAt(folder_path), args.city)
    /\ calls' = Append(calls, "get_available_columns")
    /\ pc' = IF listing' # <<>> THEN "listed" ELSE "no_columns"
    /\ exit_status' = 0
    /\ UNCHANGED <<args, net, data, downloads, ensured, folder_path, data_df,
                   plot>>

\* lines 333-342: the summary and plot_allergen_by_week
Plot ==
    /\ pc = "plotting"
    /\ plot' = plot_allergen_by_week(data_df, args.years)
    /\ calls' = Append(calls, "plot_allergen_by_week")
    /\ pc' = IF plot'.drawn THEN "plot_saved" ELSE "no_data"
    /\ exit_status' = 0
    /\ UNCHANGED <<args, net, data, downloads, ensured, folder_path, data_df,
                   listing>>

\* --------------------------------------------------------------- inputs

ColDate == <<"D", "a", "t", "e">>

ColAlnus == <<"A", "L", "N", "U", "S">>

ColBetula == <<"B", "E", "T", "U", "L", "A">>

CityNice == <<"N", "I", "C", "E">>

CityMontpellier == <<"M", "O", "N", "T", "P", "E", "L", "L", "I", "E", "R">>

CityLyon == <<"L", "Y", "O", "N">>

NameNiceA == <<"N", "I", "C", "E", "_", "A">> \o ExtXlsx

NameNiceB == <<"N", "I", "C", "E", "_", "B">> \o ExtXls

NameNiceC == <<"N", "I", "C", "E", "_", "C">> \o ExtXlsx

NameMontpell == <<"M", "O", "N", "T", "P", "E", "L", "L">> \o ExtXls

NameReadme == <<"R", "E", "A", "D", "M", "E", ".", "t", "x", "t">>

File(name, content) == [name |-> name, content |-> content]

\* a sheet whose column G (index 6) is ALNUS
WideSheet ==
    Sheet(<<ColDate, <<"B">>, <<"C">>, <<"D">>, <<"E">>, ColBetula, ColAlnus>>,
          << <<DateCell(364), NaCell, NaCell, NaCell, NaCell, NumCell(2), NumCell(1)>>,
             <<DateCell(730), NaCell, NaCell, NaCell, NaCell, NaCell, NumCell(5)>>,
             <<DateCell(365), NaCell, NaCell, NaCell, NaCell, NumCell(4), NumCell(2)>>,
             <<TextCell, NaCell, NaCell, NaCell, NaCell, NumCell(1), NumCell(7)>> >>)

NarrowSheet ==
    Sheet(<<ColDate, ColAlnus, ColBetula>>,
          << <<DateCell(371), NumCell(3), NaCell>>,
             <<NaCell, NumCell(1), NumCell(1)>>,
             <<DateCell(365), NumCell(6), NumCell(2)>> >>)

DateOnlySheet == Sheet(<<ColDate>>, << <<DateCell(364)>> >>)

\* the states the directory 'data' may be in when the script starts
DataStates ==
    { NoDir,
      Dir(<<>>),
      Dir(<<File(NameReadme, Unreadable)>>),
      Dir(<<File(NameNiceA, WideSheet)>>),
      Dir(<<File(NameNiceB, NarrowSheet), File(NameNiceA, DateOnlySheet)>>),
      Dir(<<File(NameNiceA, Unreadable), File(NameMontpell, NarrowSheet),
            File(NameNiceC, NarrowSheet)>>) }

Member(path, content) == [path |-> path, content |-> content]

\* what the archive behind zip_url may hold
Archives ==
    { <<>>,
      <<Member(NameReadme, Unreadable)>>,
      <<Member(<<"p", "/">>, Unreadable),
        Member(<<"p", "/">> \o NameNiceA, WideSheet),
        Member(<<"p", "/", "q", "/">> \o NameMontpell, NarrowSheet),
        Member(NameReadme, Unreadable)>> }

\* the outcomes of the download: urlopen raises, the file is no zip archive,
\* or an archive whose member fail_at (0: none) cannot be read
Networks ==
    { [urlopen_ok |-> FALSE, is_zip |-> FALSE, members |-> <<>>, fail_at |-> 0],
      [urlopen_ok |-> TRUE, is_zip |-> FALSE, members |-> <<>>, fail_at |-> 0] }
    \cup { [urlopen_ok |-> TRUE, is_zip |-> TRUE, members |-> m, fail_at |-> k] :
             m \in Archives, k \in 0..3 }

Arguments ==
    [ folder_path : {"", "elsewhere", "nowhere"},
      city        : {CityNice, CityMontpellier, CityLyon},
      allergen    : {<<>>, ColAlnus, <<"2">>, <<"9">>, <<"-", "3">>,
                     <<"-", "9", "9">>},
      years       : {2, DefaultYears},
      refresh     : BOOLEAN ]

Init ==
    /\ pc = "start"
    /\ args \in Arguments
    /\ net \in {n \in Networks : n.fail_at <= Len(n.members)}
    /\ data \in DataStates
    /\ downloads = 0
    /\ ensured = "none"
    /\ folder_path = ""
    /\ data_df = <<>>
    /\ listing = <<>>
    /\ plot = NoPlot
    /\ exit_status = -1
    /\ calls = <<>>

Next ==
    \/ EnsureData
    \/ CannotProceed
    \/ ResolveFolder
    \/ Extract
    \/ Suggest
    \/ Plot

Spec == Init /\ [][Next]_vars

\* the script runs on until it ends: nothing else is scheduled
FairSpec == Spec /\ WF_vars(Next)

\* ------------------------------------------------- claims on the script

HasExcel(dir) ==
    /\ dir.exists
    /\ \E i \in 1..Len(dir.files) :
          IsSuffix(ExtXlsx, dir.files[i].name) \/ IsSuffix(ExtXls, dir.files[i].name)

\* C1: ensure_data_folder returns True without downloading and leaves the
\* folder as it is when the folder holds an Excel file and no refresh is
\* forced; in every other case it tries exactly one download.
C1_DownloadIffAbsentOrForced ==
    [][pc = "start" =>
         IF HasExcel(data) /\ ~args.refresh
         THEN ensured' = "true" /\ downloads' = downloads /\ data' = data
         ELSE downloads' = downloads + 1]_vars

C1_Witness ==
    /\ pc = "ensured"
    /\ ~args.refresh
    /\ ensured = "true"
    /\ downloads = 0
    /\ HasExcel(data)

\* C2: ensure_data_folder returns True exactly when the data folder exists
\* and holds an Excel file at the time it returns.
C2_ReturnTellsExcelPresent ==
    ensured # "none" => (ensured = "true" <=> HasExcel(data))

\* C3: when ensure_data_folder returns False the script exits with status 1:
\* it calls no other stage function, builds no frame, no listing and no plot,
\* whatever the other arguments are.
C3_NoDataExits ==
    /\ [](ensured = "false" =>
            /\ pc \in {"ensured", "exited"}
            /\ calls = <<"ensure_data_folder">>
            /\ data_df = <<>> /\ listing = <<>> /\ ~plot.drawn
            /\ folder_path = ""
            /\ (pc = "exited" => exit_status = 1))
    /\ [][ensured = "false" => pc' = "exited" /\ exit_status' = 1]_vars
    /\ (ensured = "false" ~> (pc = "exited" /\ exit_status = 1))

\* a run that would have plotted 'elsewhere' had the download not failed
C3_Witness ==
    /\ pc = "exited"
    /\ exit_status = 1
    /\ ensured = "false"
    /\ args.folder_path = "elsewhere"
    /\ args.allergen = ColAlnus
    /\ args.city = CityNice

\* the allergen is in no matched file: as a name in no header, as an index
\* beyond every column count
AllergenNotFound(files, col) ==
    \A i \in 1..Len(files) :
        IF col.is_name
        THEN \A j \in 1..Len(files[i].content.columns) :
                files[i].content.columns[j] # col.name
        ELSE col.index >= Len(files[i].content.columns)

\* C6: when the allergen given with -a is not found in any matched file, the
\* script shows the list of available columns instead of plotting, and the
\* list is every column but the first of a matched spreadsheet.
C6_NotFoundShowsList ==
    LET matched == CityFiles(DirAt(folder_path), Prefix(args.city, CityPrefixLen))
    IN  ( /\ pc \in Terminal
          /\ Len(calls) >= 2
          /\ args.allergen # <<>>
          /\ matched # <<>>
          /\ AllergenNotFound(matched, ParseAllergen(args.allergen)) )
        => /\ pc = "listed"
           /\ \E i \in 1..Len(matched) :
                 /\ matched[i].content.readable
                 /\ Len(matched[i].content.columns) = Len(listing) + 1
                 /\ \A j \in 1..Len(listing) :
                       listing[j] = matched[i].content.columns[j + 1]

Rank(p) ==
    CASE p = "start" -> 0
      [] p = "ensured" -> 1
      [] p = "extract" -> 2
      [] p \in {"suggest", "plotting"} -> 3
      [] OTHER -> 4

StageOrders ==
    { <<>>,
      <<"ensure_data_folder">>,
      <<"ensure_data_folder", "extract_alnus_data">>,
      <<"ensure_data_folder", "extract_alnus_data", "plot_allergen_by_week">>,
      <<"ensure_data_folder", "extract_alnus_data", "get_available_columns">> }

\* C7 as stated: a run ends with the plot saved, the listing of available
\* columns, the invalid-folder message or exit status 1.
C7_FourWaysToEnd ==
    pc \in Terminal => pc \in {"plot_saved", "listed", "invalid_folder", "exited"}

\* C7 amended: the stage functions are called in the order ensure, extract,
\* then plot or the column listing, each at most once and with no step back;
\* a plot is drawn only after ensure_data_folder returned True, the folder
\* was a directory and the frame was not empty; and every run ends, with the
\* plot saved, the listing, "No columns found.", the invalid-folder message
\* or exit status 1, and takes no step after that.
C7_StagesInOrderAndEnds ==
    /\ [](/\ calls \in StageOrders
          /\ (\/ plot.drawn
              \/ pc \in {"plotting", "plot_saved"}
              \/ "plot_allergen_by_week" \in {calls[i] : i \in 1..Len(calls)})
             => /\ ensured = "true"
                /\ DirAt(folder_path).exists
                /\ data_df # <<>>)
    /\ [][Rank(pc') > Rank(pc) /\ pc \notin Terminal]_vars
    /\ <>(pc \in {"plot_saved", "listed", "no_columns", "invalid_folder", "exited"})

C7_Witness ==
    /\ pc = "no_columns"
    /\ calls = <<"ensure_data_folder", "extract_alnus_data", "get_available_columns">>

\* ------------------------------------- extraction and plotting on sheets

\* the most rows the two generated spreadsheets hold together
MaxRows == 2

\* first-column cells: 2018-12-31 and 2019-01-01 lie in one week and in two
\* years, 2020-01-01 in a later week and year; text and empty cells do not
\* parse
GenDateCells == {DateCell(364), DateCell(365), DateCell(730), TextCell, NaCell}

GenValueCells == {NaCell, NumCell(1), NumCell(3)}

GenRows == [date : GenDateCells, value : GenValueCells]

\* the cell beside the allergen's, never equal to it
Beside(cell) == IF cell.k = "na" THEN NumCell(9) ELSE NumCell(cell.v + 1)

\* a generated spreadsheet: unreadable, (Date, ALNUS) or (Date, BETULA, ALNUS)
GenSheet(kind, rows) ==
    IF kind = "unreadable" THEN Unreadable
    ELSE IF kind = "two"
    THEN Sheet(<<ColDate, ColAlnus>>,
               [i \in 1..Len(rows) |-> <<rows[i].date, rows[i].value>>])
    ELSE Sheet(<<ColDate, ColBetula, ColAlnus>>,
               [i \in 1..Len(rows) |->
                   <<rows[i].date, Beside(rows[i].value), rows[i].value>>])

FrameArguments ==
    [ folder_path : {""},
      city        : {CityNice, <<"N", "I", "C", "E", "_", "A">>},
      allergen    : {ColAlnus, <<"2">>, <<"-", "3">>},
      years       : {1, 2},
      refresh     : {FALSE} ]

\* the script after ensure_data_folder found local data: 'data' holds
\* NICE_B.xls and NICE_A.xlsx, which share the generated rows
FrameInit ==
    /\ pc = "extract"
    /\ args \in FrameArguments
    /\ net = [urlopen_ok |-> FALSE, is_zip |-> FALSE, members |-> <<>>, fail_at |-> 0]
    /\ \E n \in 0..MaxRows : \E rs \in [1..n -> GenRows] : \E cut \in 0..n :
       \E ka \in {"unreadable", "two", "three"} :
       \E kb \in {"unreadable", "two", "three"} :
          /\ ka = "unreadable" => cut = 0
          /\ kb = "unreadable" => cut = n
          /\ data = Dir(<<File(NameNiceB, GenSheet(kb, SubSeq(rs, cut + 1, n))),
                          File(NameNiceA, GenSheet(ka, SubSeq(rs, 1, cut)))>>)
    /\ downloads = 0
    /\ ensured = "true"
    /\ folder_path = "data"
    /\ data_df = <<>>
    /\ listing = <<>>
    /\ plot = NoPlot
    /\ exit_status = -1
    /\ calls = <<"ensure_data_folder">>

FrameNext ==
    \/ Extract
    \/ Suggest
    \/ Plot

FrameSpec == FrameInit /\ [][FrameNext]_vars

\* ------------------------------------ claims on extraction and plotting

Extracted == Len(calls) >= 2

\* the files matching the city filter, and the column asked for
Matched == CityFiles(DirAt(folder_path), Prefix(args.city, CityPrefixLen))

Asked == ParseAllergen(args.allergen)

\* the file can be read and has the column asked for
Usable(content, col) ==
    /\ content.readable
    /\ IF col.is_name
       THEN \E j \in 1..Len(content.columns) : content.columns[j] = col.name
       ELSE 0 - Len(content.columns) <= col.index /\ col.index < Len(content.columns)

\* the place of the allergen's cell in a row of a usable file
CellPlace(content, col) ==
    IF col.is_name
    THEN CHOOSE j \in 1..Len(content.columns) :
            /\ content.columns[j] = col.name
            /\ \A h \in 1..(j - 1) : content.columns[h] # col.name
    ELSE IF col.index >= 0 THEN col.index + 1
    ELSE Len(content.columns) + col.index + 1

\* the calendar year of a day of 2018-2020
CalendarYear(d) == IF d <= 364 THEN 2018 ELSE IF d <= 729 THEN 2019 ELSE 2020

\* the source rows of the usable files among m whose date parses and whose
\* allergen cell is present, each as [date, allergen] with its <<file, row>>
SourceKept(m, col) ==
    LET place == [f \in 1..Len(m) |->
                    IF Usable(m[f].content, col) THEN CellPlace(m[f].content, col)
                    ELSE 0]
    IN  {[at |-> fi, date |-> m[fi[1]].content.rows[fi[2]][1],
          allergen |-> m[fi[1]].content.rows[fi[2]][place[fi[1]]]] :
            fi \in {gj \in (1..Len(m)) \X (1..MaxRows) :
                      /\ place[gj[1]] > 0
                      /\ gj[2] <= Len(m[gj[1]].content.rows)
                      /\ m[gj[1]].content.rows[gj[2]][1].k = "date"
                      /\ m[gj[1]].content.rows[gj[2]][place[gj[1]]].k # "na"}}

\* C4: every row of the frame extract_alnus_data returns has a date, an
\* allergen value and the calendar year of its date; the frame holds each
\* source row of a processed file whose date parses and whose allergen cell
\* is present, as often as the sources do, and no other row.
C4_RowsCleaned ==
    Extracted =>
        LET kept == SourceKept(Matched, Asked)
        IN  /\ \A i \in 1..Len(data_df) :
                  /\ data_df[i].date.k = "date"
                  /\ data_df[i].allergen.k # "na"
                  /\ data_df[i].year = NumCell(CalendarYear(data_df[i].date.v))
                  /\ Cardinality({j \in 1..Len(data_df) :
                                     /\ data_df[j].date = data_df[i].date
                                     /\ data_df[j].allergen = data_df[i].allergen})
                     = Cardinality({s \in kept :
                                       /\ s.date = data_df[i].date
                                       /\ s.allergen = data_df[i].allergen})
            /\ Len(data_df) = Cardinality(kept)

\* of the two rows of a processed file, the one with a date and a value is
\* kept and the one with a date and an empty allergen cell is dropped
C4_Witness ==
    /\ Extracted
    /\ Len(data_df) = 1
    /\ \E f \in 1..Len(Matched) :
          /\ Usable(Matched[f].content, Asked)
          /\ Len(Matched[f].content.rows) = 2
          /\ \E j \in 1..2 :
                /\ Matched[f].content.rows[j][1].k = "date"
                /\ Matched[f].content.rows[j][CellPlace(Matched[f].content, Asked)].k = "na"

\* the rows a usable file gives, in order; none for a file that fails
Contribution(content, col) ==
    IF ~Usable(content, col) THEN <<>>
    ELSE LET p    == CellPlace(content, col)
             good == SelectSeq(content.rows,
                        LAMBDA r : r[1].k = "date" /\ r[p].k # "na")
         IN  [i \in 1..Len(good) |->
                [date |-> good[i][1], allergen |-> good[i][p],
                 year |-> NumCell(CalendarYear(good[i][1].v))]]

RECURSIVE Contributions(_, _)
Contributions(files, col) ==
    IF files = <<>> THEN <<>>
    ELSE Contribution(Head(files).content, col) \o Contributions(Tail(files), col)

Retained ==
    SelectSeq(data_df,
        LAMBDA r : \A i \in 1..Len(data_df) : r.year.v > data_df[i].year.v - args.years)

InWeekAt(r, x) == x <= r.date.v /\ r.date.v < x + 7

RECURSIVE Total(_)
Total(rows) == IF rows = <<>> THEN 0 ELSE Total(Tail(rows)) + Head(rows).allergen.v

\* C5: plot_allergen_by_week plots one point for each Monday-to-Sunday week
\* holding a retained row and none for another week, in increasing week
\* order; a point's value is the mean of the allergen values of all retained
\* rows of that week, whatever file they came from.
C5_WeeklyMeans ==
    plot.drawn =>
        LET kept == Retained
        IN  /\ \A i \in 1..Len(kept) :
                  \E k \in 1..Len(plot.points) : InWeekAt(kept[i], plot.points[k].x)
            /\ \A k \in 1..Len(plot.points) :
                  LET x     == plot.points[k].x
                      group == SelectSeq(kept, LAMBDA r : InWeekAt(r, x))
                  IN  /\ x % 7 = 0
                      /\ group # <<>>
                      /\ plot.points[k].y.den > 0
                      /\ plot.points[k].y.num * Len(group)
                            = plot.points[k].y.den * Total(group)
                      /\ k > 1 => plot.points[k - 1].x < x

\* the two files give one row each, of one week and with different values:
\* one point, their mean
C5_Witness ==
    /\ plot.drawn
    /\ Len(plot.points) = 1
    /\ plot.points[1].y = [num |-> 2, den |-> 1]
    /\ Len(Matched) = 2
    /\ Len(Contribution(Matched[1].content, Asked)) = 1
    /\ Len(Contribution(Matched[2].content, Asked)) = 1

\* C8: the rows plot_allergen_by_week aggregates are those whose year lies in
\* [max_year - num_years + 1, max_year], max_year being the largest year of
\* the frame; the title shows that interval; and for num_years >= 1 they span
\* at most num_years years and include every row of max_year.
C8_LastYears ==
    plot.drawn =>
        LET top == CHOOSE y \in {data_df[i].year.v : i \in 1..Len(data_df)} :
                      \A i \in 1..Len(data_df) : data_df[i].year.v <= y
            low == top - args.years + 1
        IN  /\ plot.aggregated = SelectSeq(data_df,
                                    LAMBDA r : low <= r.year.v /\ r.year.v <= top)
            /\ plot.min_year = low
            /\ plot.max_year = top
            /\ args.years >= 1 =>
                  /\ Cardinality({plot.aggregated[i].year.v :
                                     i \in 1..Len(plot.aggregated)}) <= args.years
                  /\ \A i \in 1..Len(data_df) :
                        data_df[i].year.v = top =>
                           \E j \in 1..Len(plot.aggregated) :
                              plot.aggregated[j] = data_df[i]

\* two years are asked for and the frame holds 2018 and 2020: the row of 2018
\* is left out and the title reads 2019-2020
C8_Witness ==
    /\ plot.drawn
    /\ args.years = 2
    /\ plot.min_year = 2019
    /\ plot.max_year = 2020
    /\ Len(plot.aggregated) = 1
    /\ Len(data_df) = 2

====
